---- MODULE Spec2Model ----
(***************************************************************************)
(* Model of jankelemen/mirror: one-directional directory mirroring.        *)
(*                                                                         *)
(* A path is a Go string, modelled as the sequence of its bytes, so that   *)
(* the byte-wise ordering of sort.Slice, strings.HasPrefix and             *)
(* filepath.Dir are computed as the code computes them.  The separator is  *)
(* '/' (47); '-' is 45, '.' is 46, 'a'..'f' are 97..102.                    *)
(*                                                                         *)
(* A directory tree (one side of the mirror) is a function from the        *)
(* relative paths that exist in it to [kind, size] records.                *)
(***************************************************************************)
EXTENDS Integers, Sequences, FiniteSets, TLC

VARIABLES
    srcTree,        \* the source directory on disk
    dstTree,        \* the destination directory on disk
    cleaningMode,   \* the -c flag (main.go:23)
    pc,             \* position of main() / of the function under test
    folders,        \* Folder diff returned by srcDstDiff
    files,          \* File diff returned by srcDstDiff
    totalSize,      \* total size returned with the File diff
    readErr,        \* the error ReadFolder returned: <<>> (nil) or <<path>>
    answers,        \* what AskQuestion returned for the questions asked so far
    digits,         \* the string handed to ThousandSeparator
    sizeShown,      \* the size as printed in the second question
    sorted,         \* the slice the running apply loop ranges over
    idx,            \* number of loop iterations completed
    ops,            \* filesystem mutations issued so far, in order
    panicked,       \* a run-time panic (index out of range) happened
    logFile,        \* the lines of the file "log"
    progressLog,    \* the progress lines printed on standard output
    recentlyLoggedProgress, \* accumulator of logProgressFiles/Folders
    counter,        \* folders processed by the running folder loop
    bytesWritten    \* bytes copied (or deleted) by the running file loop

vars == <<srcTree, dstTree, cleaningMode, pc, folders, files, totalSize,
          readErr, answers, digits, sizeShown, sorted, idx, ops, panicked, logFile, progressLog,
          recentlyLoggedProgress, counter, bytesWritten>>

----------------------------------------------------------------------------
(* Bounds of the model *)

\* file sizes range over 0..MaxSize
MaxSize == 2

\* the batches the apply phases are run on by themselves: up to MaxFolders
\* sibling directories and up to MaxFiles files in the root
MaxFolders == 10
MaxFiles == 3

\* the byte counts BytesToMB is applied to by itself go up to MaxMB
\* megabytes; the strings ThousandSeparator is applied to by itself have up
\* to MaxDigits digits
MaxMB == 1200
MaxDigits == 9

\* directories that may exist in a tree of the pipeline specification:
\* "ab", "ab-c", "ab-c/d", "ab/d"
TreeDirs ==
    { <<97,98>>, <<97,98,45,99>>, <<97,98,45,99,47,100>>, <<97,98,47,100>> }

\* regular files that may exist in a tree: "f", "ab/f"
TreeFiles == { <<102>>, <<97,98,47,102>> }

\* directories of the trees the diff and ordering functions are applied to:
\* "a", "a-b", "a/b", "a/b/c", "ab", "abc", "abc/d"
PureDirs ==
    { <<97>>, <<97,45,98>>, <<97,47,98>>, <<97,47,98,47,99>>, <<97,98>>,
      <<97,98,99>>, <<97,98,99,47,100>> }

\* regular files of those trees: "e", "f"
PureFiles == { <<101>>, <<102>> }

\* entries of the trees ReadFolder is applied to on its own; dm stands for
\* dont_mirror.  Directories: "a", "a/dm", "a/dm/b", "b", "dm"
ReadDirs ==
    LET dm == <<100,111,110,116,95,109,105,114,114,111,114>>
    IN  { <<97>>, <<97,47>> \o dm, <<97,47>> \o dm \o <<47,98>>, <<98>>, dm }

\* regular files: "a/f", "a/dm/f", "b/dm" (a file of that name), "dm/f"
ReadFiles ==
    LET dm == <<100,111,110,116,95,109,105,114,114,111,114>>
    IN  { <<97,47,102>>, <<97,47>> \o dm \o <<47,102>>, <<98,47>> \o dm,
          dm \o <<47,102>> }

\* symbolic links: "a/l", "l"
ReadLinks == { <<97,47,108>>, <<108>> }

\* entries of the trees of clean-mode runs with ignored directories.
\* Directories of the destination: "a", "a/dm", "dm"; of the source: "a", "dm"
CleanDstDirs ==
    LET dm == <<100,111,110,116,95,109,105,114,114,111,114>>
    IN  { <<97>>, <<97,47>> \o dm, dm }
CleanSrcDirs ==
    LET dm == <<100,111,110,116,95,109,105,114,114,111,114>>
    IN  { <<97>>, dm }

\* regular files of the destination: "a/f", "a/dm/f", "dm/f"; of the
\* source: "a/f"
CleanDstFiles ==
    LET dm == <<100,111,110,116,95,109,105,114,114,111,114>>
    IN  { <<97,47,102>>, <<97,47>> \o dm \o <<47,102>>, dm \o <<47,102>> }
CleanSrcFiles == { <<97,47,102>> }

----------------------------------------------------------------------------
(* Strings and paths *)

\* Go's < on strings: byte-wise lexicographic order
RECURSIVE StrLess(_, _)
StrLess(s, t) ==
    IF t = <<>> THEN FALSE
    ELSE IF s = <<>> THEN TRUE
    ELSE IF Head(s) # Head(t) THEN Head(s) < Head(t)
    ELSE StrLess(Tail(s), Tail(t))

\* strings.HasPrefix(s, prefix)
HasPrefix(s, prefix) ==
    /\ Len(prefix) <= Len(s)
    /\ SubSeq(s, 1, Len(prefix)) = prefix

\* index of the last separator of p, 0 when there is none
LastSep(p) ==
    LET seps == { i \in 1..Len(p) : p[i] = 47 }
    IN  IF seps = {} THEN 0 ELSE CHOOSE i \in seps : \A j \in seps : j <= i

\* filepath.Dir on a clean relative path: all but the last element, "." when
\* the path has a single element
Dir(p) == IF LastSep(p) = 0 THEN <<46>> ELSE SubSeq(p, 1, LastSep(p) - 1)

\* the last element of a path (DirEntry.Name of the entry at p)
Base(p) == SubSeq(p, LastSep(p) + 1, Len(p))

\* FolderToIgnore = "dont_mirror"
FolderToIgnore == <<100,111,110,116,95,109,105,114,114,111,114>>

\* p is a proper ancestor of q on path-component boundaries
IsAncestor(p, q) ==
    /\ Len(p) < Len(q)
    /\ SubSeq(q, 1, Len(p)) = p
    /\ q[Len(p) + 1] = 47

\* the proper ancestors of p
Ancestors(p) == { SubSeq(p, 1, i - 1) : i \in { j \in 1..Len(p) : p[j] = 47 } }

\* unicode.IsSpace on the bytes that occur: space, \t, \n, \r
IsSpace(b) == b \in {32, 9, 10, 13}

\* strings.TrimSpace
RECURSIVE TrimLeft(_)
TrimLeft(s) == IF s # <<>> /\ IsSpace(Head(s)) THEN TrimLeft(Tail(s)) ELSE s

RECURSIVE TrimRight(_)
TrimRight(s) ==
    IF s # <<>> /\ IsSpace(s[Len(s)])
    THEN TrimRight(SubSeq(s, 1, Len(s) - 1)) ELSE s

TrimSpace(s) == TrimRight(TrimLeft(s))

\* mirror.go:442  strings.EqualFold("y", answer): 'y' is 121, 'Y' is 89
EqualFoldY(answer) == answer \in { <<121>>, <<89>> }

\* mirror.go:437-446  AskQuestion on the line read from standard input
AskQuestion(line) == EqualFoldY(TrimSpace(line))

\* the lines an operator may type: "y\n", "Y\n", " y \n", "n\n", "\n",
\* "yes\n", and the empty string of a closed input
Lines ==
    { <<121,10>>, <<89,10>>, <<32,121,32,10>>, <<110,10>>, <<10>>,
      <<121,101,115,10>>, <<>> }

\* BytesInMB = 1e6
BytesInMB == 1000000

\* strconv.FormatInt(v, 10) for v >= 0; '0' is 48
RECURSIVE FormatInt(_)
FormatInt(v) ==
    IF v < 10 THEN <<48 + v>>
    ELSE Append(FormatInt(v \div 10), 48 + (v % 10))

\* mirror.go:720-726  ThousandSeparator; the separator is a space (32)
RECURSIVE ThousandSeparator(_)
ThousandSeparator(n) ==
    IF Len(n) < 4 THEN n
    ELSE ThousandSeparator(SubSeq(n, 1, Len(n) - 3)) \o <<32>>
             \o SubSeq(n, Len(n) - 2, Len(n))

\* mirror.go:753-755  BytesToMB
BytesToMBBinary(size) == ThousandSeparator(FormatInt(size \div 1048576))
BytesToMB(size) == ThousandSeparator(FormatInt(size \div BytesInMB))

----------------------------------------------------------------------------
(* The file system *)

EmptyMap == [x \in {} |-> 0]

DirEntry == [kind |-> "dir", size |-> 0]
FileEntry(size) == [kind |-> "file", size |-> size]

SymlinkEntry == [kind |-> "symlink", size |-> 1]

IsDirIn(tree, p) == p \in DOMAIN tree /\ tree[p].kind = "dir"

\* the parent directory of p exists in tree (the root always exists)
ParentExists(tree, p) == LastSep(p) = 0 \/ IsDirIn(tree, Dir(p))

\* os.ReadDir(path): the entries directly inside path, sorted by name.
\* The root of the walk is the empty relative path.
Children(tree, path) ==
    { p \in DOMAIN tree : IF path = <<>> THEN LastSep(p) = 0
                             ELSE LastSep(p) # 0 /\ Dir(p) = path }

\* a tree made of the directories ds and the regular files of fs
MkTree(ds, fs) ==
    [p \in ds \cup DOMAIN fs |->
        IF p \in ds THEN DirEntry ELSE FileEntry(fs[p])]

----------------------------------------------------------------------------
(* sortFoldersOrFiles: the keys of a Folder or File, ascending *)

RECURSIVE SortAsc(_)
SortAsc(S) ==
    IF S = {} THEN <<>>
    ELSE LET m == CHOOSE x \in S : \A y \in S \ {x} : StrLess(x, y)
         IN  <<m>> \o SortAsc(S \ {m})

sortFoldersOrFiles(keys) == SortAsc(keys)

----------------------------------------------------------------------------
(* ReadFolder: the index of a tree *)

\* mirror.go:514  if currentName != FolderToIgnore
NotIgnoredPath(item) == item # FolderToIgnore
NotIgnored(item) == Base(item) # FolderToIgnore

\* mirror.go:525  if info.Mode()&os.ModeSymlink != os.ModeSymlink
NotSymlinkAny(entry) == TRUE
NotSymlink(entry) == entry.kind # "symlink"

\* mirror.go:516-518  if err = readFolder(...); err != nil { return err }
StopNever(acc) == FALSE
Stop(acc) == acc.err # <<>>

RECURSIVE readFolder(_, _, _, _)
RECURSIVE readItems(_, _, _, _)

\* the loop of readFolder over the items of one directory.  bad is the set
\* of paths on which the system call fails: os.ReadDir of a directory
\* (mirror.go:500) or DirEntry.Info of another entry (mirror.go:521).
readItems(tree, bad, items, acc) ==
    IF items = <<>> \/ Stop(acc) THEN acc
    ELSE LET item == Head(items)
             rest == Tail(items)
         IN  IF tree[item].kind = "dir"
             THEN IF NotIgnored(item)
                  THEN readItems(tree, bad, rest,
                         readFolder(tree, bad, item,
                           [acc EXCEPT !.folders = @ \cup {item}]))
                  ELSE readItems(tree, bad, rest, acc)
             ELSE IF item \in bad
                  THEN [acc EXCEPT !.err = <<item>>]
                  ELSE IF NotSymlink(tree[item])
                       THEN readItems(tree, bad, rest,
                              [acc EXCEPT
                                 !.files = @ @@ (item :> tree[item].size)])
                       ELSE readItems(tree, bad, rest, acc)

readFolder(tree, bad, path, acc) ==
    IF path \in bad
    THEN [acc EXCEPT !.err = <<path>>]
    ELSE readItems(tree, bad, SortAsc(Children(tree, path)), acc)

\* mirror.go:492-497  both maps are returned together with the error
ReadFolder(tree, bad) ==
    readFolder(tree, bad, <<>>,
               [folders |-> {}, files |-> EmptyMap, err |-> <<>>])

----------------------------------------------------------------------------
(* The four diff functions.  A Folder is the set of its keys; a File is a  *)
(* function from paths to sizes.  Each function ranges over one map and    *)
(* adds the entries that pass its test to res.                             *)

\* mirror.go:538  if _, ok := dst[folder]; !ok
MissingFoldersTest(dst, folder) == folder \notin dst

RECURSIVE MissingFoldersLoop(_, _, _)
MissingFoldersLoop(dst, todo, res) ==
    IF todo = {} THEN res
    ELSE LET folder == CHOOSE x \in todo : TRUE
         IN  MissingFoldersLoop(dst, todo \ {folder},
                IF MissingFoldersTest(dst, folder)
                THEN res \cup {folder} ELSE res)

\* the two arguments confused
MissingFoldersSwapped(dst, src) == MissingFoldersLoop(src, dst, {})

MissingFolders(dst, src) == MissingFoldersLoop(dst, src, {})

\* the test inverted: ok instead of !ok
FoldersToCleanTestInverted(src, folder) == folder \in src

\* mirror.go:550  if _, ok := src[folder]; !ok
FoldersToCleanTest(src, folder) == folder \notin src

RECURSIVE FoldersToCleanLoop(_, _, _)
FoldersToCleanLoop(src, todo, res) ==
    IF todo = {} THEN res
    ELSE LET folder == CHOOSE x \in todo : TRUE
         IN  FoldersToCleanLoop(src, todo \ {folder},
                IF FoldersToCleanTest(src, folder)
                THEN res \cup {folder} ELSE res)

FoldersToClean(dst, src) == FoldersToCleanLoop(src, dst, {})

\* the test without the size comparison
MissingFilesTestNoSize(dst, file, size) == file \notin DOMAIN dst

\* mirror.go:562  if _size, ok := dst[file]; !ok || _size != size
MissingFilesTest(dst, file, size) ==
    file \notin DOMAIN dst \/ dst[file] # size

\* a totalSize that is assigned instead of accumulated
MissingFilesAddAssign(acc, file, size) ==
    [res |-> acc.res @@ (file :> size), totalSize |-> size]

\* mirror.go:563-564: what one passing entry adds to res and to totalSize
MissingFilesAdd(acc, file, size) ==
    [res |-> acc.res @@ (file :> size), totalSize |-> acc.totalSize + size]

RECURSIVE MissingFilesLoop(_, _, _, _)
MissingFilesLoop(dst, src, todo, acc) ==
    IF todo = {} THEN acc
    ELSE LET file == CHOOSE x \in todo : TRUE
             size == src[file]
         IN  MissingFilesLoop(dst, src, todo \ {file},
                IF MissingFilesTest(dst, file, size)
                THEN MissingFilesAdd(acc, file, size)
                ELSE acc)

MissingFiles(dst, src) ==
    MissingFilesLoop(dst, src, DOMAIN src, [res |-> EmptyMap, totalSize |-> 0])

\* mirror.go:575  if _, ok := src[file]; !ok
FilesToCleanTest(src, file) == file \notin DOMAIN src

\* mirror.go:576-577: what one passing entry adds to res and to totalSize
FilesToCleanAdd(acc, file, size) ==
    [res |-> acc.res @@ (file :> size), totalSize |-> acc.totalSize + size]

RECURSIVE FilesToCleanLoop(_, _, _, _)
FilesToCleanLoop(dst, src, todo, acc) ==
    IF todo = {} THEN acc
    ELSE LET file == CHOOSE x \in todo : TRUE
             size == dst[file]
         IN  FilesToCleanLoop(dst, src, todo \ {file},
                IF FilesToCleanTest(src, file)
                THEN FilesToCleanAdd(acc, file, size)
                ELSE acc)

\* cleaning that also returns the files whose sizes differ
FilesToCleanDifferent(dst, src) == MissingFiles(src, dst)

FilesToClean(dst, src) ==
    FilesToCleanLoop(dst, src, DOMAIN dst, [res |-> EmptyMap, totalSize |-> 0])

----------------------------------------------------------------------------
(* The two ordering functions.  Both index sorted[len(folders)-1] or       *)
(* sorted[0] unconditionally, so they are defined for a non-empty Folder   *)
(* only; the empty Folder is the panic modelled by the actions.            *)

\* the test with the arguments of strings.HasPrefix exchanged
LongestTestSwapped(cur, next) == Dir(next) = Dir(cur) \/ ~HasPrefix(cur, next)

\* mirror.go:817  the test that keeps sorted[i] (cur) given sorted[i+1] (next)
LongestTest(cur, next) == Dir(next) = Dir(cur) \/ ~HasPrefix(next, cur)

\* mirror.go:816-820  for i := 0; i < len(folders)-1; i++  (i is 1-based here)
RECURSIVE LongestLoop(_, _, _)
LongestLoop(s, i, res) ==
    IF i >= Len(s) THEN res
    ELSE LongestLoop(s, i + 1,
            IF LongestTest(s[i], s[i + 1]) THEN Append(res, s[i]) ELSE res)

keepFoldersWithLongestPrefix(fs) ==
    LET s == sortFoldersOrFiles(fs)
    IN  Append(LongestLoop(s, 1, <<>>), s[Len(s)])

\* the test with the arguments of strings.HasPrefix exchanged
ShortestTestSwapped(cur, prev) == Dir(cur) = Dir(prev) \/ ~HasPrefix(prev, cur)

\* mirror.go:830  the test that keeps sorted[i] (cur) given sorted[i-1] (prev)
ShortestTest(cur, prev) == Dir(cur) = Dir(prev) \/ ~HasPrefix(cur, prev)

\* mirror.go:829-833  for i := len(folders) - 1; i > 0; i--  (i is 1-based here)
RECURSIVE ShortestLoop(_, _, _)
ShortestLoop(s, i, res) ==
    IF i <= 1 THEN res
    ELSE ShortestLoop(s, i - 1,
            IF ShortestTest(s[i], s[i - 1]) THEN Append(res, s[i]) ELSE res)

\* the same collapse walking the sorted slice upwards
RECURSIVE ShortestLoopUp(_, _, _)
ShortestLoopUp(s, i, res) ==
    IF i > Len(s) THEN res
    ELSE ShortestLoopUp(s, i + 1,
            IF ShortestTest(s[i], s[i - 1]) THEN Append(res, s[i]) ELSE res)

keepFoldersWithShortestPrefixUp(fs) ==
    LET s == sortFoldersOrFiles(fs)
    IN  ShortestLoopUp(s, 2, <<s[1]>>)

keepFoldersWithShortestPrefix(fs) ==
    LET s == sortFoldersOrFiles(fs)
    IN  Append(ShortestLoop(s, Len(s), <<>>), s[1])

----------------------------------------------------------------------------
(* Operating-system primitives on a tree *)

\* os.MkdirAll(p) fails when p or one of its parents exists and is no directory
MkdirAllBlocked(tree, p) ==
    \E q \in {p} \cup Ancestors(p) : q \in DOMAIN tree /\ tree[q].kind # "dir"

\* os.MkdirAll(p): p and every missing parent of p become directories
MkdirAll(tree, p) ==
    [q \in DOMAIN tree \cup {p} \cup Ancestors(p) |->
        IF q \in DOMAIN tree THEN tree[q] ELSE DirEntry]

\* os.RemoveAll(p): p and everything beneath it disappear; a missing p is
\* no error
RemoveAll(tree, p) ==
    [q \in { r \in DOMAIN tree : r # p /\ ~IsAncestor(p, r) } |-> tree[q]]

\* os.Create(p) needs the parent directory of p and no directory at p
CreateBlocked(tree, p) == ~ParentExists(tree, p) \/ IsDirIn(tree, p)

\* os.Create(p) followed by io.Copy of n bytes: a regular file of size n
WriteFile(tree, p, n) ==
    [q \in DOMAIN tree \cup {p} |-> IF q = p THEN FileEntry(n) ELSE tree[q]]

\* os.Remove(p) of a file
Remove(tree, p) == [q \in DOMAIN tree \ {p} |-> tree[q]]

----------------------------------------------------------------------------
(* Logging and progress *)

LogMadeFolders ==
    "directories made: (if a folder had some parent directories, they were also created)"
LogCleanedFolders ==
    "directories removed: (if a folder had some subdirectories, they were also removed)"
LogCopiedFiles == "files copied:"
LogCleanedFiles == "files removed:"

HeaderLine(text) == [section |-> text, path |-> <<>>]
BlankLine == [section |-> "", path |-> <<>>]
PathLine(p) == [section |-> "", path |-> p]

\* initLogFile + WriteNewLineIfNotEmpty, then LogToFile(f, header+"\n")
OpenSection(log, text) ==
    (IF Len(log) # 0 THEN Append(log, BlankLine) ELSE log)
        \o <<HeaderLine(text), BlankLine>>

\* logProgressFolders, after *counter++: the new accumulator and the
\* percentages printed
logProgressFolders(rlp, cnt, foldersLen) ==
    LET howOftenToLog == 10
        progress == (cnt * 100) \div foldersLen
    IN  IF progress >= rlp + howOftenToLog
        THEN [rlp |-> rlp + progress, out |-> <<progress>>]
        ELSE [rlp |-> rlp, out |-> <<>>]

\* logProgressFiles: the new accumulator and the percentages printed
logProgressFilesNoAccumulator(rlp, total, written) ==
    LET howOftenToLog == 10
        progress == IF total > 0 THEN (written * 100) \div total ELSE 100
    IN  IF progress >= howOftenToLog
        THEN [rlp |-> rlp + progress, out |-> <<progress>>]
        ELSE [rlp |-> rlp, out |-> <<>>]
logProgressFiles(rlp, total, written) ==
    LET howOftenToLog == 10
        progress == IF total > 0 THEN (written * 100) \div total ELSE 100
    IN  IF total <= 0 /\ total = 0 /\ rlp > 0
        THEN [rlp |-> rlp, out |-> <<>>]
        ELSE IF progress >= rlp + howOftenToLog
             THEN [rlp |-> rlp + progress, out |-> <<progress>>]
             ELSE [rlp |-> rlp, out |-> <<>>]

ProgressLine(msg, pct) == [msg |-> msg, pct |-> pct]

----------------------------------------------------------------------------
(* Initial states: two trees on disk and the flags of one invocation *)

\* sets of directories in which every directory has its parents
ClosedDirSets(U) == { ds \in SUBSET U : \A p \in ds : Ancestors(p) \subseteq ds }

\* regular files of U placed in the root or in a directory of ds
FileMaps(U, ds) ==
    UNION { [S -> 0..MaxSize] :
            S \in SUBSET { p \in U : LastSep(p) = 0 \/ Dir(p) \in ds } }

Trees(DU, FU) ==
    UNION { { MkTree(ds, fs) : fs \in FileMaps(FU, ds) } :
            ds \in ClosedDirSets(DU) }

\* the trees of Trees(DU, FU) with symbolic links of LU added
TreesWithLinks(DU, FU, LU) ==
    UNION { { t @@ [l \in ls |-> SymlinkEntry] :
              ls \in SUBSET { l \in LU : ParentExists(t, l) } } :
            t \in Trees(DU, FU) }

\* the file "log" as an earlier run left it
PreviousLog ==
    <<HeaderLine(LogCopiedFiles), BlankLine, PathLine(<<102>>)>>

\* the state of a run before anything was computed
Fresh ==
    /\ folders = {}
    /\ files = EmptyMap
    /\ totalSize = 0
    /\ readErr = <<>>
    /\ answers = <<>>
    /\ digits = <<>>
    /\ sizeShown = <<>>
    /\ sorted = <<>>
    /\ idx = 0
    /\ ops = <<>>
    /\ panicked = FALSE
    /\ logFile = PreviousLog
    /\ progressLog = <<>>
    /\ recentlyLoggedProgress = 0
    /\ counter = 0
    /\ bytesWritten = 0

Init ==
    /\ srcTree \in Trees(TreeDirs, TreeFiles)
    /\ dstTree \in Trees(TreeDirs, TreeFiles)
    /\ cleaningMode \in BOOLEAN
    /\ pc = "AskFirst"
    /\ Fresh

----------------------------------------------------------------------------
(* main.go: doCopying / doCleaning *)

disk == <<srcTree, dstTree, cleaningMode>>
shown == <<digits, sizeShown>>
diffVars == <<folders, files, totalSize, readErr, answers, shown>>
loopVars == <<sorted, idx, recentlyLoggedProgress, counter, bytesWritten>>
outVars == <<ops, logFile, progressLog>>

\* main.go:36, 63  the first question
\* main.go:36-38, 63-65  if !AskQuestion(...) { exitWithZero(MsgCanceling) }
GateOpen(yes, next) == next
Gate(yes, next) == IF yes THEN next ELSE "canceled"

AskFirst ==
    /\ pc = "AskFirst"
    /\ \E line \in Lines :
        /\ answers' = Append(answers, AskQuestion(line))
        /\ pc' = Gate(AskQuestion(line), "srcDstDiff")
    /\ UNCHANGED <<disk, folders, files, totalSize, readErr, shown, loopVars,
                   outVars, panicked>>

\* the listings that may fail while a tree is indexed: none, or the one of
\* the root (main.go:91-99 discards the index whenever an error comes back)
ReadFailures == { {}, {<<>>} }

\* main.go:106-108  nothing to do when both diffs are empty
AfterDiffAlwaysAsk(fo, fi) == "AskSecond"
AfterDiff(fo, fi) ==
    IF Cardinality(DOMAIN fi) = 0 /\ Cardinality(fo) = 0
    THEN "nothingToDo" ELSE "AskSecond"

\* main.go:89-111  srcDstDiff: index both trees, compute the diff of the mode
srcDstDiff ==
    /\ pc = "srcDstDiff"
    /\ \E sBad \in ReadFailures, dBad \in ReadFailures :
        LET s == ReadFolder(srcTree, sBad)
            d == ReadFolder(dstTree, dBad)
            fo == IF cleaningMode THEN FoldersToClean(d.folders, s.folders)
                  ELSE MissingFolders(d.folders, s.folders)
            fi == IF cleaningMode THEN FilesToClean(d.files, s.files)
                  ELSE MissingFiles(d.files, s.files)
        IN  IF s.err # <<>> \/ d.err # <<>>
            THEN /\ pc' = "fatal"
                 /\ readErr' = IF s.err # <<>> THEN s.err ELSE d.err
                 /\ UNCHANGED <<folders, files, totalSize>>
            ELSE /\ folders' = fo
                 /\ files' = fi.res
                 /\ totalSize' = fi.totalSize
                 /\ readErr' = <<>>
                 /\ pc' = AfterDiff(fo, fi.res)
    /\ UNCHANGED <<disk, answers, shown, loopVars, outVars, panicked>>

\* main.go:42-44, 69-71  the second question, which shows
\* BytesToMB(totalSize)
AskSecond ==
    /\ pc = "AskSecond"
    /\ digits' = FormatInt(totalSize \div BytesInMB)
    /\ sizeShown' = BytesToMB(totalSize)
    /\ \E line \in Lines :
        /\ answers' = Append(answers, AskQuestion(line))
        /\ pc' = Gate(AskQuestion(line), "TruncateLogFile")
    /\ UNCHANGED <<disk, folders, files, totalSize, readErr, loopVars,
                   outVars, panicked>>

\* the phase that follows phase `after` (main.go:49-59, 76-86)
NextPhase(after) ==
    LET nFolders == Cardinality(folders)
        nFiles == Cardinality(DOMAIN files)
    IN  IF cleaningMode
        THEN IF after = "TruncateLogFile" /\ nFiles > 0 THEN "CleanFiles"
             ELSE IF after # "CleanFolders" /\ nFolders > 0 THEN "CleanFolders"
             ELSE "finished"
        ELSE IF after = "TruncateLogFile" /\ nFolders > 0 THEN "MakeFolders"
             ELSE IF after # "CopyFiles" /\ nFiles > 0 THEN "CopyFiles"
             ELSE "finished"

\* main.go:46, 73  mirror.TruncateLogFile
TruncateLogFile ==
    /\ pc = "TruncateLogFile"
    /\ \E ok \in BOOLEAN :
        IF ok
        THEN logFile' = <<>> /\ pc' = NextPhase("TruncateLogFile")
        ELSE logFile' = logFile /\ pc' = "fatal"
    /\ UNCHANGED <<disk, diffVars, loopVars, ops, progressLog, panicked>>

\* the start of MakeFolders, CleanFolders, CopyFiles, CleanFiles: open the
\* log, write the section header, print 0%, sort
BeginPhase(name, header, order) ==
    /\ \E ok \in BOOLEAN :
        IF ok
        THEN /\ logFile' = OpenSection(logFile, header)
             /\ progressLog' = Append(progressLog, ProgressLine(name, 0))
             /\ sorted' = order
             /\ idx' = 0
             /\ recentlyLoggedProgress' = 0
             /\ counter' = 0
             /\ bytesWritten' = 0
             /\ pc' = name \o "Loop"
        ELSE /\ pc' = "fatal"
             /\ UNCHANGED <<logFile, progressLog, loopVars>>
    /\ UNCHANGED <<disk, diffVars, ops, panicked>>

\* the end of a phase: the log file is closed
EndPhase(name) ==
    /\ idx = Len(sorted)
    /\ \E ok \in BOOLEAN : pc' = IF ok THEN NextPhase(name) ELSE "fatal"
    /\ UNCHANGED <<disk, diffVars, loopVars, outVars, panicked>>

\* one folder processed: progress, then the log line
FolderDone(name, folder) ==
    LET lp == logProgressFolders(recentlyLoggedProgress, counter + 1, Len(sorted))
    IN  /\ counter' = counter + 1
        /\ recentlyLoggedProgress' = lp.rlp
        /\ progressLog' = progressLog \o
               [i \in 1..Len(lp.out) |-> ProgressLine(name, lp.out[i])]
        /\ logFile' = Append(logFile, PathLine(folder))
        /\ idx' = idx + 1
        /\ UNCHANGED <<sorted, bytesWritten>>

\* one file processed: progress, then the log line
FileDone(name, file, bytes) ==
    LET lp == logProgressFiles(recentlyLoggedProgress, totalSize, bytes)
    IN  /\ bytesWritten' = bytes
        /\ recentlyLoggedProgress' = lp.rlp
        /\ progressLog' = progressLog \o
               [i \in 1..Len(lp.out) |-> ProgressLine(name, lp.out[i])]
        /\ logFile' = Append(logFile, PathLine(file))
        /\ idx' = idx + 1
        /\ UNCHANGED <<sorted, counter>>

\* a failed operation ends the run: nothing is logged for its path
FailedSkip ==
    /\ pc' = pc
    /\ idx' = idx + 1
    /\ UNCHANGED <<sorted, recentlyLoggedProgress, counter, bytesWritten,
                   logFile, progressLog>>
Failed ==
    /\ pc' = "fatal"
    /\ UNCHANGED <<loopVars, logFile, progressLog>>

Issue(op, path, ok) == ops' = Append(ops, [op |-> op, path |-> path, ok |-> ok])

----------------------------------------------------------------------------
(* mirror.go: the four apply phases *)

\* mirror.go:584-595
MakeFoldersBegin ==
    /\ pc = "MakeFolders"
    /\ BeginPhase("MakeFolders", LogMadeFolders,
                  keepFoldersWithLongestPrefix(folders))

\* mirror.go:596-604  one iteration: os.MkdirAll, progress, log line
MakeFoldersLoop ==
    /\ pc = "MakeFoldersLoop"
    /\ idx < Len(sorted)
    /\ LET folder == sorted[idx + 1]
       IN  \E ok \in BOOLEAN :
            IF ok /\ ~MkdirAllBlocked(dstTree, folder)
            THEN /\ dstTree' = MkdirAll(dstTree, folder)
                 /\ Issue("MkdirAll", folder, TRUE)
                 /\ FolderDone("MakeFolders", folder)
                 /\ pc' = pc
            ELSE /\ dstTree' = dstTree
                 /\ Issue("MkdirAll", folder, FALSE)
                 /\ Failed
    /\ UNCHANGED <<srcTree, cleaningMode, diffVars, panicked>>

\* mirror.go:606-607
MakeFoldersEnd ==
    /\ pc = "MakeFoldersLoop"
    /\ EndPhase("MakeFolders")

\* mirror.go:638-647
CopyFilesBegin ==
    /\ pc = "CopyFiles"
    /\ BeginPhase("CopyFiles", LogCopiedFiles, sortFoldersOrFiles(DOMAIN files))

\* mirror.go:649-676  one iteration: os.Open, os.Create, io.Copy, the two
\* Close calls, progress, log line.  A failure after os.Create leaves the
\* destination file truncated or partly written.
CopyFilesLoop ==
    /\ pc = "CopyFilesLoop"
    /\ idx < Len(sorted)
    /\ LET file == sorted[idx + 1]
           size == srcTree[file].size
       IN  \/ /\ ~CreateBlocked(dstTree, file)
              /\ dstTree' = WriteFile(dstTree, file, size)
              /\ Issue("Create", file, TRUE)
              /\ FileDone("CopyFiles", file, bytesWritten + size)
              /\ pc' = pc
           \/ /\ dstTree' = dstTree
              /\ Issue("Create", file, FALSE)
              /\ Failed
           \/ /\ ~CreateBlocked(dstTree, file)
              /\ \E n \in 0..size : dstTree' = WriteFile(dstTree, file, n)
              /\ Issue("Create", file, FALSE)
              /\ Failed
    /\ UNCHANGED <<srcTree, cleaningMode, diffVars, panicked>>

\* mirror.go:678-682
CopyFilesEnd ==
    /\ pc = "CopyFilesLoop"
    /\ EndPhase("CopyFiles")

\* mirror.go:686-695
CleanFilesBegin ==
    /\ pc = "CleanFiles"
    /\ BeginPhase("CleanFiles", LogCleanedFiles, sortFoldersOrFiles(DOMAIN files))

\* mirror.go:697-711  one iteration: os.Stat, os.Remove, progress, log line
CleanFilesLoop ==
    /\ pc = "CleanFilesLoop"
    /\ idx < Len(sorted)
    /\ LET file == sorted[idx + 1]
       IN  \E ok \in BOOLEAN :
            IF ok /\ file \in DOMAIN dstTree
            THEN /\ dstTree' = Remove(dstTree, file)
                 /\ Issue("Remove", file, TRUE)
                 /\ FileDone("CleanFiles", file,
                             bytesWritten + dstTree[file].size)
                 /\ pc' = pc
            ELSE /\ dstTree' = dstTree
                 /\ Issue("Remove", file, FALSE)
                 /\ Failed
    /\ UNCHANGED <<srcTree, cleaningMode, diffVars, panicked>>

\* mirror.go:713-717
CleanFilesEnd ==
    /\ pc = "CleanFilesLoop"
    /\ EndPhase("CleanFiles")

\* mirror.go:611-622
CleanFoldersBegin ==
    /\ pc = "CleanFolders"
    /\ BeginPhase("CleanFolders", LogCleanedFolders,
                  keepFoldersWithShortestPrefix(folders))

\* mirror.go:623-631  one iteration: os.RemoveAll, progress, log line.  A
\* failing os.RemoveAll may already have removed what is beneath the folder.
CleanFoldersLoop ==
    /\ pc = "CleanFoldersLoop"
    /\ idx < Len(sorted)
    /\ LET folder == sorted[idx + 1]
       IN  \/ /\ dstTree' = RemoveAll(dstTree, folder)
              /\ Issue("RemoveAll", folder, TRUE)
              /\ FolderDone("CleanFolders", folder)
              /\ pc' = pc
           \/ /\ \E partial \in BOOLEAN :
                    dstTree' = IF partial /\ folder \in DOMAIN dstTree
                               THEN (folder :> dstTree[folder])
                                        @@ RemoveAll(dstTree, folder)
                               ELSE dstTree
              /\ Issue("RemoveAll", folder, FALSE)
              /\ Failed
    /\ UNCHANGED <<srcTree, cleaningMode, diffVars, panicked>>

\* mirror.go:633-634
CleanFoldersEnd ==
    /\ pc = "CleanFoldersLoop"
    /\ EndPhase("CleanFolders")

Next ==
    \/ AskFirst
    \/ srcDstDiff
    \/ AskSecond
    \/ TruncateLogFile
    \/ MakeFoldersBegin
    \/ MakeFoldersLoop
    \/ MakeFoldersEnd
    \/ CopyFilesBegin
    \/ CopyFilesLoop
    \/ CopyFilesEnd
    \/ CleanFilesBegin
    \/ CleanFilesLoop
    \/ CleanFilesEnd
    \/ CleanFoldersBegin
    \/ CleanFoldersLoop
    \/ CleanFoldersEnd

Spec == Init /\ [][Next]_vars

----------------------------------------------------------------------------
(* Clean-mode runs on trees that hold ignored directories *)

InitClean ==
    /\ srcTree \in Trees(CleanSrcDirs, CleanSrcFiles)
    /\ dstTree \in Trees(CleanDstDirs, CleanDstFiles)
    /\ cleaningMode = TRUE
    /\ pc = "AskFirst"
    /\ Fresh

NextClean ==
    \/ AskFirst
    \/ srcDstDiff
    \/ AskSecond
    \/ TruncateLogFile
    \/ CleanFilesBegin
    \/ CleanFilesLoop
    \/ CleanFilesEnd
    \/ CleanFoldersBegin
    \/ CleanFoldersLoop
    \/ CleanFoldersEnd

SpecClean == InitClean /\ [][NextClean]_vars

----------------------------------------------------------------------------
(* The apply phases on larger batches: the run from the point where the    *)
(* diff was computed, both questions were answered with yes and the log    *)
(* file was truncated.                                                      *)

\* directories "a", "b", ... and files "1", "2", ... of a batch
BatchFolders(n) == { <<96 + i>> : i \in 1..n }
BatchFiles == UNION { [{ <<48 + i>> : i \in 1..m } -> 0..MaxSize] :
                      m \in 0..MaxFiles }

InitApply ==
    /\ cleaningMode \in BOOLEAN
    /\ \E n \in 0..MaxFolders, fs \in BatchFiles :
        LET t == MkTree(BatchFolders(n), fs)
        IN  /\ n + Cardinality(DOMAIN fs) > 0
            /\ srcTree = IF cleaningMode THEN EmptyMap ELSE t
            /\ dstTree = IF cleaningMode THEN t ELSE EmptyMap
    /\ LET s == ReadFolder(srcTree, {})
           d == ReadFolder(dstTree, {})
           fi == IF cleaningMode THEN FilesToClean(d.files, s.files)
                 ELSE MissingFiles(d.files, s.files)
       IN  /\ folders = IF cleaningMode
                        THEN FoldersToClean(d.folders, s.folders)
                        ELSE MissingFolders(d.folders, s.folders)
           /\ files = fi.res
           /\ totalSize = fi.totalSize
    /\ readErr = <<>>
    /\ answers = <<TRUE, TRUE>>
    /\ digits = FormatInt(totalSize \div BytesInMB)
    /\ sizeShown = BytesToMB(totalSize)
    /\ sorted = <<>>
    /\ idx = 0
    /\ ops = <<>>
    /\ panicked = FALSE
    /\ logFile = <<>>
    /\ progressLog = <<>>
    /\ recentlyLoggedProgress = 0
    /\ counter = 0
    /\ bytesWritten = 0
    /\ pc = NextPhase("TruncateLogFile")

NextApply ==
    \/ MakeFoldersBegin
    \/ MakeFoldersLoop
    \/ MakeFoldersEnd
    \/ CopyFilesBegin
    \/ CopyFilesLoop
    \/ CopyFilesEnd
    \/ CleanFilesBegin
    \/ CleanFilesLoop
    \/ CleanFilesEnd
    \/ CleanFoldersBegin
    \/ CleanFoldersLoop
    \/ CleanFoldersEnd

SpecApply == InitApply /\ [][NextApply]_vars

----------------------------------------------------------------------------
(* The diff and ordering functions applied on their own to the indexes of  *)
(* two trees: pc names the function applied last, the result is in         *)
(* folders, files/totalSize or sorted.                                     *)

InitPure ==
    /\ \/ /\ srcTree \in Trees(PureDirs, {})
          /\ dstTree \in Trees(PureDirs, {})
       \/ /\ srcTree \in Trees({}, PureFiles)
          /\ dstTree \in Trees({}, PureFiles)
    /\ cleaningMode = FALSE
    /\ pc = "indexed"
    /\ Fresh

pureRest == <<disk, loopVars, outVars, panicked>>

CallMissingFolders ==
    /\ pc = "indexed"
    /\ folders' = MissingFolders(ReadFolder(dstTree, {}).folders,
                                 ReadFolder(srcTree, {}).folders)
    /\ pc' = "MissingFolders"
    /\ UNCHANGED <<files, totalSize, readErr, answers, shown, pureRest>>

CallFoldersToClean ==
    /\ pc = "indexed"
    /\ folders' = FoldersToClean(ReadFolder(dstTree, {}).folders,
                                 ReadFolder(srcTree, {}).folders)
    /\ pc' = "FoldersToClean"
    /\ UNCHANGED <<files, totalSize, readErr, answers, shown, pureRest>>

CallMissingFiles ==
    /\ pc = "indexed"
    /\ LET r == MissingFiles(ReadFolder(dstTree, {}).files,
                             ReadFolder(srcTree, {}).files)
       IN  files' = r.res /\ totalSize' = r.totalSize
    /\ pc' = "MissingFiles"
    /\ UNCHANGED <<folders, readErr, answers, shown, pureRest>>

CallFilesToClean ==
    /\ pc = "indexed"
    /\ LET r == FilesToClean(ReadFolder(dstTree, {}).files,
                             ReadFolder(srcTree, {}).files)
       IN  files' = r.res /\ totalSize' = r.totalSize
    /\ pc' = "FilesToClean"
    /\ UNCHANGED <<folders, readErr, answers, shown, pureRest>>

\* keepFoldersWithLongestPrefix applied to a folder diff; the empty Folder
\* makes sorted[len(folders)-1] panic (mirror.go:821)
CallKeepLongest ==
    /\ pc \in {"MissingFolders", "FoldersToClean"}
    /\ IF folders = {}
       THEN panicked' = TRUE /\ sorted' = sorted
       ELSE panicked' = FALSE /\ sorted' = keepFoldersWithLongestPrefix(folders)
    /\ pc' = "keepFoldersWithLongestPrefix"
    /\ UNCHANGED <<disk, diffVars, idx, recentlyLoggedProgress, counter,
                   bytesWritten, outVars>>

\* keepFoldersWithShortestPrefix applied to a folder diff; the empty Folder
\* makes sorted[0] panic (mirror.go:834)
CallKeepShortest ==
    /\ pc \in {"MissingFolders", "FoldersToClean"}
    /\ IF folders = {}
       THEN panicked' = TRUE /\ sorted' = sorted
       ELSE panicked' = FALSE /\ sorted' = keepFoldersWithShortestPrefix(folders)
    /\ pc' = "keepFoldersWithShortestPrefix"
    /\ UNCHANGED <<disk, diffVars, idx, recentlyLoggedProgress, counter,
                   bytesWritten, outVars>>

NextPure ==
    \/ CallMissingFolders
    \/ CallFoldersToClean
    \/ CallMissingFiles
    \/ CallFilesToClean
    \/ CallKeepLongest
    \/ CallKeepShortest

SpecPure == InitPure /\ [][NextPure]_vars

----------------------------------------------------------------------------
(* ReadFolder applied to one tree, with at most one failing system call *)

InitRead ==
    /\ srcTree \in TreesWithLinks(ReadDirs, ReadFiles, ReadLinks)
    /\ dstTree = EmptyMap
    /\ cleaningMode = FALSE
    /\ pc = "start"
    /\ Fresh

CallReadFolder ==
    /\ pc = "start"
    /\ \E bad \in {{}} \cup { {p} : p \in DOMAIN srcTree \cup {<<>>} } :
        LET r == ReadFolder(srcTree, bad)
        IN  /\ folders' = r.folders
            /\ files' = r.files
            /\ readErr' = r.err
    /\ pc' = "ReadFolder"
    /\ UNCHANGED <<disk, totalSize, answers, shown, loopVars, outVars,
                   panicked>>

NextRead == CallReadFolder

SpecRead == InitRead /\ [][NextRead]_vars

----------------------------------------------------------------------------
(* BytesToMB and ThousandSeparator applied by themselves *)

\* byte counts around the megabyte boundaries
FormatSizes ==
    { m * BytesInMB + r : m \in 0..MaxMB, r \in {0, 1, BytesInMB - 1} }

\* strings of the digits '1' and '9'
DigitStrings == UNION { [1..k -> {49, 57}] : k \in 1..MaxDigits }

InitFormat ==
    /\ \/ pc = "size" /\ totalSize \in FormatSizes /\ digits = <<>>
       \/ pc = "digits" /\ totalSize = 0 /\ digits \in DigitStrings
    /\ srcTree = EmptyMap
    /\ dstTree = EmptyMap
    /\ cleaningMode = FALSE
    /\ folders = {}
    /\ files = EmptyMap
    /\ readErr = <<>>
    /\ answers = <<>>
    /\ sizeShown = <<>>
    /\ sorted = <<>>
    /\ idx = 0
    /\ ops = <<>>
    /\ panicked = FALSE
    /\ logFile = PreviousLog
    /\ progressLog = <<>>
    /\ recentlyLoggedProgress = 0
    /\ counter = 0
    /\ bytesWritten = 0

formatRest ==
    <<disk, folders, files, totalSize, readErr, answers, loopVars, outVars,
      panicked>>

CallBytesToMB ==
    /\ pc = "size"
    /\ digits' = FormatInt(totalSize \div BytesInMB)
    /\ sizeShown' = BytesToMB(totalSize)
    /\ pc' = "BytesToMB"
    /\ UNCHANGED formatRest

CallThousandSeparator ==
    /\ pc = "digits"
    /\ sizeShown' = ThousandSeparator(digits)
    /\ pc' = "ThousandSeparator"
    /\ UNCHANGED <<digits, formatRest>>

NextFormat ==
    \/ CallBytesToMB
    \/ CallThousandSeparator

SpecFormat == InitFormat /\ [][NextFormat]_vars

----------------------------------------------------------------------------
(* Properties of the diff functions (under SpecPure) *)

\* the indexes the functions were applied to
srcIndex == ReadFolder(srcTree, {})
dstIndex == ReadFolder(dstTree, {})

\* the elements of a sequence
Range(s) == { s[i] : i \in 1..Len(s) }

\* the sum of the sizes of a File
RECURSIVE SumSizes(_)
SumSizes(f) ==
    IF DOMAIN f = {} THEN 0
    ELSE LET p == CHOOSE x \in DOMAIN f : TRUE
         IN  f[p] + SumSizes([q \in DOMAIN f \ {p} |-> f[q]])

\* C1: MissingFiles(dst, src) is exactly the entries of src whose path is
\* absent from dst or whose size in dst differs, with the size of src; a path
\* with equal sizes is never returned.
C1_MissingFilesExact ==
    pc = "MissingFiles" =>
        LET s == srcIndex.files
            d == dstIndex.files
            want == { p \in DOMAIN s : p \notin DOMAIN d \/ d[p] # s[p] }
        IN  /\ DOMAIN files = want
            /\ \A p \in want : files[p] = s[p]
            /\ \A p \in DOMAIN s \cap DOMAIN d : d[p] = s[p] => p \notin DOMAIN files

\* C1 witness: one file has equal sizes and is left out, another differs by
\* one byte and is returned
C1_Witness ==
    /\ pc = "MissingFiles"
    /\ \E p, q \in DOMAIN srcIndex.files \cap DOMAIN dstIndex.files :
        /\ srcIndex.files[p] = dstIndex.files[p]
        /\ p \notin DOMAIN files
        /\ srcIndex.files[q] = dstIndex.files[q] + 1
        /\ q \in DOMAIN files

\* C2: FilesToClean(dst, src) is exactly the entries of dst whose path is
\* absent from src, with the size of dst; a file present in both trees is
\* never returned, whatever its sizes.
C2_FilesToCleanExact ==
    pc = "FilesToClean" =>
        LET s == srcIndex.files
            d == dstIndex.files
        IN  /\ DOMAIN files = DOMAIN d \ DOMAIN s
            /\ \A p \in DOMAIN files : files[p] = d[p]
            /\ DOMAIN files \cap DOMAIN s = {}

\* C2 witness: a file with different sizes in the two trees is left alone
\* while another file is returned
C2_Witness ==
    /\ pc = "FilesToClean"
    /\ files # EmptyMap
    /\ \E p \in DOMAIN srcIndex.files \cap DOMAIN dstIndex.files :
        srcIndex.files[p] # dstIndex.files[p] /\ p \notin DOMAIN files

\* C3: MissingFolders(dst, src) is exactly the paths of src that are not in
\* dst, hence a subset of src and disjoint from FoldersToClean(dst, src).
C3_MissingFoldersExact ==
    pc = "MissingFolders" =>
        /\ folders = srcIndex.folders \ dstIndex.folders
        /\ folders \subseteq srcIndex.folders
        /\ folders \cap FoldersToClean(dstIndex.folders, srcIndex.folders) = {}

\* C3 witness: both diffs are non-empty and the trees share a directory
C3_Witness ==
    /\ pc = "MissingFolders"
    /\ folders # {}
    /\ FoldersToClean(dstIndex.folders, srcIndex.folders) # {}
    /\ srcIndex.folders \cap dstIndex.folders # {}

\* C4: FoldersToClean(dst, src) is exactly the paths of dst that are not in
\* src, and nothing that is in src.
C4_FoldersToCleanExact ==
    pc = "FoldersToClean" =>
        /\ folders = dstIndex.folders \ srcIndex.folders
        /\ folders \cap srcIndex.folders = {}

\* C4 witness: a directory of dst is returned while a shared one is not
C4_Witness ==
    /\ pc = "FoldersToClean"
    /\ folders # {}
    /\ srcIndex.folders \cap dstIndex.folders # {}
    /\ srcIndex.folders \ dstIndex.folders # {}

\* C5: the totalSize returned by MissingFiles and by FilesToClean is the sum
\* of the sizes of the returned entries (0 when nothing is returned).
C5_TotalSizeIsSum ==
    pc \in {"MissingFiles", "FilesToClean"} =>
        /\ totalSize = SumSizes(files)
        /\ (files = EmptyMap => totalSize = 0)

\* C5 witness: two files of different positive sizes are returned
C5_Witness ==
    /\ pc \in {"MissingFiles", "FilesToClean"}
    /\ \E p, q \in DOMAIN files :
        /\ p # q
        /\ files[p] > 0
        /\ files[q] > files[p]
        /\ totalSize = files[p] + files[q]

----------------------------------------------------------------------------
(* Properties of the copy and clean pipelines (under Spec) and of the      *)
(* ordering functions (under SpecPure)                                     *)

\* C6: once the copy-mode pipeline has run to successful completion,
\* indexing both trees again and recomputing the diff yields no missing
\* folder and no missing file.
C6_CopyIdempotent ==
    (~cleaningMode /\ pc = "finished") =>
        /\ MissingFolders(dstIndex.folders, srcIndex.folders) = {}
        /\ MissingFiles(dstIndex.files, srcIndex.files).res = EmptyMap

\* C7: every path of the folder set handed to MakeFolders is in the output of
\* keepFoldersWithLongestPrefix or a proper ancestor of a path of the output,
\* so once MakeFolders has succeeded every directory of the source index
\* exists in the destination.
C7_CreationCoverage ==
    /\ pc = "MakeFoldersLoop" =>
          \A p \in folders :
              \/ p \in Range(sorted)
              \/ \E q \in Range(sorted) : IsAncestor(p, q)
    /\ (~cleaningMode /\ pc \in {"CopyFiles", "CopyFilesLoop", "finished"}) =>
          \A p \in srcIndex.folders : IsDirIn(dstTree, p)

\* C8: every path of the folder set handed to CleanFolders is in the output
\* of keepFoldersWithShortestPrefix or a proper descendant of a path of the
\* output, so once CleanFolders has succeeded no directory of the set still
\* exists in the destination.
C8_DeletionCoverage ==
    /\ pc = "CleanFoldersLoop" =>
          \A p \in folders :
              \/ p \in Range(sorted)
              \/ \E q \in Range(sorted) : IsAncestor(q, p)
    /\ (cleaningMode /\ pc = "finished") =>
          \A p \in folders : p \notin DOMAIN dstTree

\* the paths os.RemoveAll was called on, in order
Removals == SelectSeq(ops, LAMBDA o : o.op = "RemoveAll")

\* C9: in the removals issued by CleanFolders no path is targeted after one
\* of its proper ancestors was targeted.
C9_NoRemovalAfterAncestor ==
    /\ \A i, j \in 1..Len(Removals) :
          i < j => ~IsAncestor(Removals[i].path, Removals[j].path)
    /\ pc = "CleanFoldersLoop" =>
          \A i, j \in 1..Len(sorted) :
              i < j => ~IsAncestor(sorted[i], sorted[j])

\* C9 witness: a clean run removed a directory and, after it, one of its
\* proper ancestors
C9_Witness ==
    /\ cleaningMode
    /\ pc = "finished"
    /\ \E i, j \in 1..Len(Removals) :
          i < j /\ IsAncestor(Removals[j].path, Removals[i].path)

\* C10: keepFoldersWithLongestPrefix drops a path only if the input holds a
\* proper descendant of it, keepFoldersWithShortestPrefix only if the input
\* holds a proper ancestor of it (ancestry on path-component boundaries); a
\* set without any ancestor pair is returned whole by both.
C10_SeparatorAwareCollapse ==
    /\ (pc = "keepFoldersWithLongestPrefix" /\ ~panicked) =>
          \A p \in folders \ Range(sorted) :
              \E q \in folders : IsAncestor(p, q)
    /\ (pc = "keepFoldersWithShortestPrefix" /\ ~panicked) =>
          \A p \in folders \ Range(sorted) :
              \E q \in folders : IsAncestor(q, p)
    /\ (pc \in {"keepFoldersWithLongestPrefix", "keepFoldersWithShortestPrefix"}
          /\ ~panicked /\ \A p, q \in folders : ~IsAncestor(p, q)) =>
          Range(sorted) = folders

----------------------------------------------------------------------------
(* Further properties of the ordering functions (under SpecPure) *)

\* F is a single ancestor chain: any two of its paths are related by ancestry
\* and every path but the shallowest has its parent in F
IsChain(F) ==
    /\ F # {}
    /\ \A p, q \in F : p = q \/ IsAncestor(p, q) \/ IsAncestor(q, p)
    /\ \A p \in F : (\E q \in F : IsAncestor(q, p)) => Dir(p) \in F

Deepest(F) == CHOOSE p \in F : \A q \in F : ~IsAncestor(p, q)
Shallowest(F) == CHOOSE p \in F : \A q \in F : ~IsAncestor(q, p)

\* C11: for a folder set that is a single ancestor chain,
\* keepFoldersWithLongestPrefix returns exactly the deepest path and
\* keepFoldersWithShortestPrefix exactly the shallowest path.
C11_ChainCollapses ==
    /\ (pc = "keepFoldersWithLongestPrefix" /\ ~panicked /\ IsChain(folders)) =>
          sorted = <<Deepest(folders)>>
    /\ (pc = "keepFoldersWithShortestPrefix" /\ ~panicked /\ IsChain(folders)) =>
          sorted = <<Shallowest(folders)>>

\* C11 witness: the chain "a", "a/b", "a/b/c" collapsed to "a/b/c"
C11_Witness ==
    /\ pc = "keepFoldersWithLongestPrefix"
    /\ folders = { <<97>>, <<97,47,98>>, <<97,47,98,47,99>> }
    /\ sorted = << <<97,47,98,47,99>> >>

\* C12: the ordering functions do not fail on small inputs: the empty folder
\* set gives the empty sequence without a panic, a one-element set gives
\* exactly its element.
C12_SmallInputs ==
    pc \in {"keepFoldersWithLongestPrefix", "keepFoldersWithShortestPrefix"} =>
        /\ ~panicked
        /\ folders = {} => sorted = <<>>
        /\ \A p \in folders : folders = {p} => sorted = <<p>>

\* C13: the output of keepFoldersWithShortestPrefix(F) holds no path that is
\* a proper descendant of another path of F.
C13_OnlyShallowestRemoved ==
    (pc = "keepFoldersWithShortestPrefix" /\ ~panicked) =>
        \A p \in Range(sorted) : \A q \in folders : ~IsAncestor(q, p)

\* the path sorted immediately before p in F (p is not the first one)
SortedBefore(F, p) ==
    CHOOSE q \in F : /\ StrLess(q, p)
                     /\ \A r \in F : StrLess(r, p) => r = q \/ StrLess(r, q)

\* the path sorted immediately after p in F (p is not the last one)
SortedAfter(F, p) ==
    CHOOSE q \in F : /\ StrLess(p, q)
                     /\ \A r \in F : StrLess(p, r) => r = q \/ StrLess(q, r)

\* C13 amended: the output of keepFoldersWithShortestPrefix(F) holds no path
\* that is a proper descendant of the path sorted immediately before it in F.
C13_NoChildOfPredecessor ==
    (pc = "keepFoldersWithShortestPrefix" /\ ~panicked) =>
        \A p \in Range(sorted) :
            (\E q \in folders : StrLess(q, p)) =>
                ~IsAncestor(SortedBefore(folders, p), p)

\* C13 witness: a path that follows its ancestor was dropped, while another
\* descendant of a path of F stayed in the output
C13_Witness ==
    /\ pc = "keepFoldersWithShortestPrefix"
    /\ \E p \in folders \ Range(sorted) : IsAncestor(SortedBefore(folders, p), p)
    /\ \E p \in Range(sorted) : \E q \in folders : IsAncestor(q, p)

\* C14: the output of keepFoldersWithLongestPrefix(F) holds no path that is a
\* proper ancestor of another path of F.
C14_FullyCollapsed ==
    (pc = "keepFoldersWithLongestPrefix" /\ ~panicked) =>
        \A p \in Range(sorted) : \A q \in folders : ~IsAncestor(p, q)

\* C14 amended: the output of keepFoldersWithLongestPrefix(F) holds no path
\* that is a proper ancestor of the path sorted immediately after it in F.
C14_NoParentOfSuccessor ==
    (pc = "keepFoldersWithLongestPrefix" /\ ~panicked) =>
        \A p \in Range(sorted) :
            (\E q \in folders : StrLess(p, q)) =>
                ~IsAncestor(p, SortedAfter(folders, p))

\* C14 witness: a path followed by its descendant was dropped, while another
\* ancestor of a path of F stayed in the output
C14_Witness ==
    /\ pc = "keepFoldersWithLongestPrefix"
    /\ \E p \in folders \ Range(sorted) : IsAncestor(p, SortedAfter(folders, p))
    /\ \E p \in Range(sorted) : \E q \in folders : IsAncestor(p, q)

----------------------------------------------------------------------------
(* Properties of ReadFolder (under SpecRead) *)

\* p is a directory named dont_mirror or lies beneath one
Ignored(p) ==
    \/ Base(p) = FolderToIgnore
    \/ \E q \in Ancestors(p) : Base(q) = FolderToIgnore

\* p lies beneath a directory named dont_mirror
InIgnored(p) == \E q \in Ancestors(p) : Base(q) = FolderToIgnore

\* C15: when ReadFolder succeeds, the DirectorySet holds no directory named
\* dont_mirror and nothing beneath one, holds every other directory below
\* the root, and does not hold the root itself.
C15_FoldersRecorded ==
    (pc = "ReadFolder" /\ readErr = <<>>) =>
        /\ folders = { p \in DOMAIN srcTree :
                         IsDirIn(srcTree, p) /\ ~Ignored(p) }
        /\ <<>> \notin folders
        /\ <<46>> \notin folders

C15_Witness ==
    LET dm == FolderToIgnore
    IN  /\ pc = "ReadFolder"
        /\ readErr = <<>>
        /\ IsDirIn(srcTree, <<97,47>> \o dm \o <<47,98>>)
        /\ IsDirIn(srcTree, dm)
        /\ folders = { <<97>>, <<98>> }

\* C16: when ReadFolder succeeds, the FileIndex maps every regular file
\* outside ignored directories to its size and has no entry for a symlink
\* (nor for anything else).
C16_FilesRecorded ==
    (pc = "ReadFolder" /\ readErr = <<>>) =>
        LET regular == { p \in DOMAIN srcTree :
                           srcTree[p].kind = "file" /\ ~InIgnored(p) }
        IN  /\ DOMAIN files = regular
            /\ \A p \in regular : files[p] = srcTree[p].size
            /\ \A p \in DOMAIN srcTree :
                   srcTree[p].kind = "symlink" => p \notin DOMAIN files

C16_Witness ==
    LET dm == FolderToIgnore
    IN  /\ pc = "ReadFolder"
        /\ readErr = <<>>
        /\ <<97,47,108>> \in DOMAIN srcTree
        /\ <<108>> \in DOMAIN srcTree
        /\ (<<97,47>> \o dm \o <<47,102>>) \in DOMAIN srcTree
        /\ files = (<<97,47,102>> :> 2) @@ ((<<98,47>> \o dm) :> 0)

\* the elements of a path
RECURSIVE Components(_)
Components(p) ==
    IF p = <<>> THEN <<>>
    ELSE IF LastSep(p) = 0 THEN <<p>>
    ELSE Append(Components(Dir(p)), Base(p))

\* c comes before d in a walk that lists every directory in name order and
\* descends into a directory as soon as it meets it
RECURSIVE SeqBefore(_, _)
SeqBefore(c, d) ==
    IF d = <<>> THEN FALSE
    ELSE IF c = <<>> THEN TRUE
    ELSE IF Head(c) # Head(d) THEN StrLess(Head(c), Head(d))
    ELSE SeqBefore(Tail(c), Tail(d))

WalkedBefore(p, q) == SeqBefore(Components(p), Components(q))

\* the listing of a directory (the root is <<>>) failed
ListingFailed ==
    /\ pc = "ReadFolder"
    /\ readErr # <<>>
    /\ readErr[1] = <<>> \/ IsDirIn(srcTree, readErr[1])

\* C17 as stated: when a directory listing fails, at the root or nested,
\* ReadFolder returns an error and the returned maps hold no entries.
C17_NoPartialResult ==
    ListingFailed => folders = {} /\ files = EmptyMap

\* what ReadFolder returns with the error: exactly what the walk recorded
\* before the failing listing, that is the failing directory itself and the
\* entries walked before it; nothing when the listing of the root fails
PartialUpToFailure ==
    ListingFailed =>
        LET b == readErr[1]
            before == { p \in DOMAIN srcTree :
                          p = b \/ WalkedBefore(p, b) }
        IN  /\ folders = { p \in before :
                             IsDirIn(srcTree, p) /\ ~Ignored(p) }
            /\ DOMAIN files = { p \in before :
                                  srcTree[p].kind = "file" /\ ~InIgnored(p) }
            /\ \A p \in DOMAIN files : files[p] = srcTree[p].size
            /\ b = <<>> => folders = {} /\ files = EmptyMap

NestedFailure ==
    /\ ListingFailed
    /\ readErr = << <<97>> >>
    /\ IsDirIn(srcTree, <<98>>)
    /\ <<97,47,102>> \in DOMAIN srcTree
    /\ folders = { <<97>> }
    /\ files = EmptyMap

----------------------------------------------------------------------------
(* Properties of a whole run (under Spec) *)

\* the diff was computed and the run was neither cancelled nor aborted
DiffComputed == pc \notin {"AskFirst", "srcDstDiff", "canceled", "fatal"}

\* C18: in either mode, when the computed diff has no folder and no file,
\* the run ends successfully right after the diff: no operation on the
\* file system was issued and the log file is as the previous run left it.
C18_NoOpRun ==
    (DiffComputed /\ folders = {} /\ files = EmptyMap) =>
        /\ pc = "nothingToDo"
        /\ ops = <<>>
        /\ logFile = PreviousLog

C18_Witness ==
    /\ pc = "nothingToDo"
    /\ cleaningMode
    /\ srcTree # dstTree
    /\ DOMAIN dstTree # {}
    /\ logFile = PreviousLog

\* the section a completed operation is logged in
SectionOf(op) ==
    CASE op = "MkdirAll" -> LogMadeFolders
      [] op = "Create" -> LogCopiedFiles
      [] op = "Remove" -> LogCleanedFiles
      [] op = "RemoveAll" -> LogCleanedFolders

\* the path lines of a log, each with the header of its section
RECURSIVE Tagged(_, _)
Tagged(log, header) ==
    IF log = <<>> THEN <<>>
    ELSE IF Head(log).section # "" THEN Tagged(Tail(log), Head(log).section)
    ELSE IF Head(log).path # <<>>
         THEN <<[section |-> header, path |-> Head(log).path]>>
                  \o Tagged(Tail(log), header)
    ELSE Tagged(Tail(log), header)

\* the log lines expected for the operations that completed
Completed ==
    LET done == SelectSeq(ops, LAMBDA o : o.ok)
    IN  [i \in 1..Len(done) |->
            [section |-> SectionOf(done[i].op), path |-> done[i].path]]

\* C19: a failed create, copy or remove is the last operation of the run
\* (nothing is attempted on a later path or in a later phase, the run is
\* aborted), and the log sections list exactly the paths whose operation
\* completed, in order, without the failing path.
C19_FailStopExactLog ==
    /\ \A i \in 1..Len(ops) :
           ~ops[i].ok => i = Len(ops) /\ pc = "fatal"
    /\ ops # <<>> => Tagged(logFile, "") = Completed

C19_Witness ==
    /\ pc = "fatal"
    /\ Len(ops) = 2
    /\ ops[1].ok
    /\ ~ops[2].ok
    /\ Len(sorted) = 3
    /\ files # EmptyMap
    /\ Tagged(logFile, "") = <<[section |-> LogMadeFolders, path |-> ops[1].path]>>

----------------------------------------------------------------------------
(* Properties of the progress lines (under SpecApply) *)

Phases == {"MakeFolders", "CopyFiles", "CleanFiles", "CleanFolders"}

\* the percentages one phase printed so far, the opening 0% included
PhaseProgress(name) ==
    LET lines == SelectSeq(progressLog, LAMBDA l : l.msg = name)
    IN  [i \in 1..Len(lines) |-> lines[i].pct]

\* C20: within one apply phase every percentage printed is at least 10
\* above the one printed before it (so the sequence never regresses) and
\* none exceeds 100.
C20_ProgressMonotone ==
    \A name \in Phases :
        LET s == PhaseProgress(name)
        IN  \A i \in 1..Len(s) :
                /\ s[i] <= 100
                /\ i > 1 => s[i] >= s[i - 1] + 10

C20_Witness ==
    /\ pc = "finished"
    /\ PhaseProgress("MakeFolders") = <<0, 10, 20, 40, 80>>
    /\ PhaseProgress("CopyFiles") = <<0, 50, 100>>
    /\ Len(sorted) = 3
    /\ bytesWritten = 2

\* the file phase that is inside its loop, "" when none is
FilePhase ==
    IF pc = "CopyFilesLoop" THEN "CopyFiles"
    ELSE IF pc = "CleanFilesLoop" THEN "CleanFiles"
    ELSE ""

\* C21: while a non-empty file batch whose total size is 0 is copied or
\* removed, no percentage other than the opening 0% is printed before the
\* last file of the batch has been processed.
C21_ZeroTotalSilent ==
    (FilePhase # "" /\ totalSize = 0 /\ idx < Len(sorted)) =>
        PhaseProgress(FilePhase) = <<0>>

----------------------------------------------------------------------------
(* Properties of the two modes (under Spec) *)

\* C22: when a clean-mode run has completed successfully, the index of the
\* destination holds no directory and no file whose relative path is
\* absent from the index of the source.
C22_CleanComplete ==
    (cleaningMode /\ pc = "finished") =>
        /\ dstIndex.folders \subseteq srcIndex.folders
        /\ DOMAIN dstIndex.files \subseteq DOMAIN srcIndex.files

----------------------------------------------------------------------------
(* Properties of the size shown to the operator (under SpecFormat) *)

\* a string without its separators
Strip(str) == SelectSeq(str, LAMBDA b : b # 32)

\* the number a string of decimal digits stands for
RECURSIVE Value(_)
Value(d) ==
    IF d = <<>> THEN 0 ELSE Value(SubSeq(d, 1, Len(d) - 1)) * 10 + (d[Len(d)] - 48)

\* a decimal representation: digits only, no leading zero but for "0"
IsDecimal(d) ==
    /\ d # <<>>
    /\ \A i \in 1..Len(d) : d[i] \in 48..57
    /\ Len(d) > 1 => d[1] # 48

\* counting from the right, every fourth byte is a separator and no other
\* one is: groups of three digits, the leftmost of one to three
Grouped(str) ==
    /\ str # <<>>
    /\ str[1] # 32
    /\ \A i \in 1..Len(str) :
           (str[i] = 32) <=> ((Len(str) - i + 1) % 4 = 0)

\* C23: BytesToMB(s) is the decimal representation of floor(s / 1,000,000)
\* with separators such that, from the right, every group has three digits
\* and the leftmost one to three; removing the separators gives back the
\* plain number.  ThousandSeparator groups any digit string the same way.
C23_GroupedMegabytes ==
    /\ pc = "BytesToMB" =>
           LET plain == Strip(sizeShown)
               m == Value(plain)
           IN  /\ IsDecimal(plain)
               /\ plain = digits
               /\ m * BytesInMB <= totalSize
               /\ totalSize < (m + 1) * BytesInMB
               /\ Grouped(sizeShown)
    /\ pc = "ThousandSeparator" =>
           /\ Strip(sizeShown) = digits
           /\ Grouped(sizeShown)

C23_Witness ==
    /\ pc = "BytesToMB"
    /\ totalSize = 1000999999
    /\ sizeShown = <<49, 32, 48, 48, 48>>

----------------------------------------------------------------------------
(* Properties of clean mode and ignored directories (under SpecClean) *)

\* p is a directory named dont_mirror in tree, or lies beneath one
Protected(tree, p) ==
    \/ IsDirIn(tree, p) /\ Base(p) = FolderToIgnore
    \/ InIgnored(p)

\* C24: in clean mode no step of a run removes from the destination a
\* directory named dont_mirror or a file or directory beneath one.
C24_IgnoredKept ==
    [][cleaningMode =>
         \A p \in DOMAIN dstTree :
            Protected(dstTree, p) => p \in DOMAIN dstTree']_vars

----------------------------------------------------------------------------
(* Safety of clean mode (under Spec) *)

\* the entry at p of the destination is recorded in the index of the
\* source at the same relative path
InSource(p) ==
    \/ dstTree[p].kind = "dir" /\ p \in srcIndex.folders
    \/ dstTree[p].kind = "file" /\ p \in DOMAIN srcIndex.files

\* C25: in a clean-mode run every path handed to os.Remove is a file of
\* FilesToClean and every path handed to os.RemoveAll a folder of
\* FoldersToClean, and no step removes from the destination an entry that
\* the source index records at the same relative path, the recursive
\* removal of a collapsed ancestor included.
C25_CleanSafety ==
    [][cleaningMode =>
         /\ ops' # ops =>
               LET o == ops'[Len(ops')]
               IN  \/ o.op = "Remove" /\ o.path \in DOMAIN files
                   \/ o.op = "RemoveAll" /\ o.path \in folders
         /\ dstTree' # dstTree =>
               \A p \in DOMAIN dstTree :
                  InSource(p) => p \in DOMAIN dstTree']_vars

C25_Witness ==
    /\ cleaningMode
    /\ pc = "finished"
    /\ Len(ops) >= 2
    /\ ops[1].op = "Remove"
    /\ ops[Len(ops)].op = "RemoveAll"
    /\ Cardinality(folders) > Len(sorted)
    /\ DOMAIN dstTree # {}
    /\ \A p \in DOMAIN dstTree : InSource(p)

----------------------------------------------------------------------------
(* Ordering of the phases (under Spec) *)

\* C26: in a copy-mode run every directory creation precedes every file
\* copy, and the parent directory of the file about to be created exists
\* in the destination; in a clean-mode run every file removal precedes
\* every directory removal, and the file about to be removed is still in
\* the destination.
C26_PhaseOrdering ==
    /\ \A i, j \in 1..Len(ops) :
           i < j => /\ ~(ops[i].op = "Create" /\ ops[j].op = "MkdirAll")
                    /\ ~(ops[i].op = "RemoveAll" /\ ops[j].op = "Remove")
    /\ (pc = "CopyFilesLoop" /\ idx < Len(sorted)) =>
           ParentExists(dstTree, sorted[idx + 1])
    /\ (pc = "CleanFilesLoop" /\ idx < Len(sorted)) =>
           sorted[idx + 1] \in DOMAIN dstTree

----------------------------------------------------------------------------
(* The two questions (under Spec) *)

BothYes == answers = <<TRUE, TRUE>>

\* C27: in either mode no step truncates or writes the log file, or
\* creates, copies or removes anything, unless both questions were answered
\* yes; a run in which an answer is not yes is cancelled with nothing
\* changed.
C27_ConfirmationGating ==
    /\ [][(ops' # ops \/ logFile' # logFile \/ dstTree' # dstTree
              \/ srcTree' # srcTree) => BothYes]_vars
    /\ []((\E i \in 1..Len(answers) : ~answers[i]) =>
             /\ pc = "canceled"
             /\ ops = <<>>
             /\ logFile = PreviousLog)

C27_Witness ==
    /\ pc = "canceled"
    /\ answers = <<TRUE, FALSE>>
    /\ folders # {}
    /\ files # EmptyMap
    /\ ops = <<>>
    /\ logFile = PreviousLog

----------------------------------------------------------------------------
(* Completion of the progress lines (under SpecApply) *)

\* the phase whose loop has processed its last path, "" when none has
PhaseDone ==
    IF idx = Len(sorted) /\ Len(sorted) > 0
    THEN CASE pc = "MakeFoldersLoop" -> "MakeFolders"
           [] pc = "CleanFoldersLoop" -> "CleanFolders"
           [] pc = "CopyFilesLoop" /\ totalSize > 0 -> "CopyFiles"
           [] pc = "CleanFilesLoop" /\ totalSize > 0 -> "CleanFiles"
           [] OTHER -> ""
    ELSE ""

\* C28: once the last folder of a non-empty batch, or the last file of a
\* non-empty batch with a total above 0, has been processed successfully,
\* a 100% line has been printed for that phase.
C28_HundredPrinted ==
    PhaseDone # "" =>
        \E i \in 1..Len(PhaseProgress(PhaseDone)) :
            PhaseProgress(PhaseDone)[i] = 100

====
